---- MODULE Spec2Model ----
(***************************************************************************)
(* Model of electronics/scripts/nexar_download.py: the Nexar asset         *)
(* downloader.  Three specifications share the module:                     *)
(*   SpecPick  pick_datasheet applied to bounded part records              *)
(*   SpecSync  arbitrary sequences of download_file calls on a file tree   *)
(*   Spec      one run of main() over a prefix of the PARTS catalog        *)
(*                                                                         *)
(* Strings are sequences of one-character strings, so that strip(),        *)
(* lower() and the substring test are computed rather than assumed.        *)
(* JSON null for a string-valued field is the sentinel None.  A nullable   *)
(* JSON object is a sequence of length 0 (null) or 1 (the object).         *)
(***************************************************************************)
EXTENDS Integers, Sequences, FiniteSets, TLC

VARIABLES
    pc,          \* position of the running function
    part,        \* main/pick_datasheet: the part record being processed
    datasheet,   \* result of pick_datasheet(part)
    files,       \* file system: path of each existing file |-> its content
    dirs,        \* file system: the directories that exist
    last,        \* SpecSync: the latest download_file call and its outcome
    prev,        \* SpecSync: summary of the call before the latest
    args,        \* main: the parsed command line
    token,       \* main: the credential
    i,           \* main: index into PARTS of the entry being processed
    token_posts, \* main: responses to the POSTs made to TOKEN_ENDPOINT
    report,      \* main: per entry, what was requested and what was printed
    exit_code,   \* main: process exit status, Running until the process ends
    crash_at     \* main: position at which an exception left main()

vars == <<pc, part, datasheet, files, dirs, last, prev,
          args, token, i, token_posts, report, exit_code, crash_at>>

mainvars == <<args, token, i, token_posts, report, exit_code, crash_at>>

(***************************************************************************)
(* Bounds                                                                  *)
(***************************************************************************)
MaxColls == 2     \* document collections per part record (SpecPick)
MaxDocs == 2      \* documents per part record, over all collections (SpecPick)
MaxChunks == 1    \* chunks a response body delivers before it ends or fails
NumParts == 2     \* length of the prefix of PARTS a run processes

Running == 0 - 1  \* exit_code of a process that has not ended

\* values of the main() variables in the specifications that do not run it
MainIdle ==
    /\ args = <<>>
    /\ token = <<>>
    /\ i = 0
    /\ token_posts = <<>>
    /\ report = <<>>
    /\ exit_code = Running
    /\ crash_at = "none"

(***************************************************************************)
(* Python string helpers                                                   *)
(***************************************************************************)
None == <<"None">>

Falsy(x) == x = None \/ x = <<>>

\* Python "a or b" on string-or-None operands
Or(a, b) == IF Falsy(a) THEN b ELSE a

UpperCase == <<"A","B","C","D","E","F","G","H","I","J","K","L","M",
               "N","O","P","Q","R","S","T","U","V","W","X","Y","Z">>

LowerCase == <<"a","b","c","d","e","f","g","h","i","j","k","l","m",
               "n","o","p","q","r","s","t","u","v","w","x","y","z">>

LowerChar(ch) ==
    IF \E k \in 1..26 : UpperCase[k] = ch
    THEN LowerCase[CHOOSE k \in 1..26 : UpperCase[k] = ch]
    ELSE ch

\* str.lower()
Lower(s) == [k \in 1..Len(s) |-> LowerChar(s[k])]

Whitespace == {" ", "\t", "\n", "\r"}

SetMin(S) == CHOOSE x \in S : \A y \in S : x <= y

SetMax(S) == CHOOSE x \in S : \A y \in S : x >= y

\* str.strip()
Strip(s) ==
    LET keep == {k \in 1..Len(s) : s[k] \notin Whitespace}
    IN  IF keep = {} THEN <<>> ELSE SubSeq(s, SetMin(keep), SetMax(keep))

\* Python "sub in s"
Contains(s, sub) ==
    \E k \in 1..(Len(s) - Len(sub) + 1) : SubSeq(s, k, k + Len(sub) - 1) = sub

(***************************************************************************)
(* pick_datasheet                                                          *)
(***************************************************************************)
str_datasheet == <<"d","a","t","a","s","h","e","e","t">>

str_Datasheet == <<"D","a","t","a","s","h","e","e","t">>

str_Document == <<"D","o","c","u","m","e","n","t">>

\* part.get("bestDatasheet") or {}   (a missing key reads as None)
BestOf(p) ==
    IF p.bestDatasheet = <<>> THEN [name |-> None, url |-> None]
    ELSE p.bestDatasheet[1]

\* line 277 with the seen set ignored
SkipDoc_noseen(url, seen) == Falsy(url)

\* line 277: not url or url in seen
SkipDoc(url, seen) == Falsy(url) \/ url \in seen

\* line 280 without the collection-name fallback
DocName_nocoll(doc, collection) == Or(doc.name, str_Document)

\* line 280: doc.get("name") or collection.get("name") or "Document"
DocName(doc, collection) == Or(Or(doc.name, collection.name), str_Document)

\* line 281 without lower()
IsDatasheetName_cased(name) == Contains(name, str_datasheet)

\* line 281: "datasheet" in name.lower()
IsDatasheetName(name) == Contains(Lower(name), str_datasheet)

RECURSIVE ScanDocs(_, _, _)
\* lines 275-282: the inner loop from document k on; returns the reference
\* found (or <<>>) and the seen set as the loop leaves it
ScanDocs(collection, k, seen) ==
    IF k > Len(collection.documents) THEN [ret |-> <<>>, seen |-> seen]
    ELSE LET doc == collection.documents[k]
             url == doc.url
         IN  IF SkipDoc(url, seen) THEN ScanDocs(collection, k + 1, seen)
             ELSE LET name == DocName(doc, collection)
                  IN  IF IsDatasheetName(name)
                      THEN [ret |-> <<[name |-> name, url |-> url]>>,
                            seen |-> seen \cup {url}]
                      ELSE ScanDocs(collection, k + 1, seen \cup {url})

RECURSIVE ScanCollections(_, _, _)
\* lines 274-283: the outer loop from collection c on
ScanCollections(colls, c, seen) ==
    IF c > Len(colls) THEN <<>>
    ELSE LET r == ScanDocs(colls[c], 1, seen)
         IN  IF r.ret # <<>> THEN r.ret
             ELSE ScanCollections(colls, c + 1, r.seen)

\* pick_datasheet that never looks at bestDatasheet
pick_datasheet_nobest(p) == ScanCollections(p.documentCollections, 1, {})

pick_datasheet(p) ==
    LET best == BestOf(p)
    IN  IF ~Falsy(best.url)
        THEN <<[name |-> Or(best.name, str_Datasheet), url |-> best.url]>>
        ELSE ScanCollections(p.documentCollections, 1, {})

(***************************************************************************)
(* download_file                                                           *)
(*                                                                         *)
(* A path is a tuple whose first component is the parent directory.  The   *)
(* content of a file is the sequence of chunks written to it; a chunk is   *)
(* named by the URL that served it.  What the environment does to one      *)
(* call is the record net:                                                 *)
(*   mkdir_error  line 289 raises OSError                                  *)
(*   bad_url      line 290 raises ValueError (URL without a scheme)        *)
(*   urlerror     urlopen raises URLError, re-raised as RuntimeError       *)
(*   open_error   destination.open("wb") raises OSError                    *)
(*   read_error   resp.read / fh.write raises after net.n chunks were      *)
(*                written (socket timeout, reset, disk full: not URLError) *)
(*   ok           the body of net.n chunks is written in full              *)
(***************************************************************************)
\* the first n chunks of the resource at url
Body(url, n) == [k \in 1..n |-> url]

EmptyTree == [p \in {} |-> <<>>]

Parent(path) == path[1]

\* open("wb") followed by the writes of the chunks
WriteFile(fs, path, content) ==
    [p \in (DOMAIN fs) \cup {path} |-> IF p = path THEN content ELSE fs[p]]

\* line 287 with the overwrite test inverted
AlreadyPresent_flag(fs, destination, overwrite) ==
    /\ destination \in DOMAIN fs
    /\ overwrite
    /\ Len(fs[destination]) > 0

\* line 287 with the size test inverted
AlreadyPresent_size(fs, destination, overwrite) ==
    /\ destination \in DOMAIN fs
    /\ ~overwrite
    /\ Len(fs[destination]) = 0

\* line 287: destination.exists() and not overwrite and st_size > 0
AlreadyPresent(fs, destination, overwrite) ==
    /\ destination \in DOMAIN fs
    /\ ~overwrite
    /\ Len(fs[destination]) > 0

\* line 292 with the file opened before the connection
AfterConnectError_truncated(fs, destination) == WriteFile(fs, destination, <<>>)

\* line 292: urlopen comes first in the with statement; when it raises, the
\* file has not been opened
AfterConnectError(fs, destination) == fs

\* lines 292-299 with the partial file removed when the transfer fails
AfterReadError_unlink(fs, destination, content) ==
    [p \in (DOMAIN fs) \ {destination} |-> fs[p]]

\* lines 292-299: the with statement closes the file and the exception
\* propagates; what was written stays
AfterReadError(fs, destination, content) == WriteFile(fs, destination, content)

\* result of one call: the tree it leaves, what it returns or raises, and
\* the GET requests it issued
download_file(tree, url, destination, overwrite, net) ==
    IF AlreadyPresent(tree.files, destination, overwrite)
    THEN [files |-> tree.files, dirs |-> tree.dirs, ret |-> "False", gets |-> <<>>]
    ELSE IF net.kind = "mkdir_error"
    THEN [files |-> tree.files, dirs |-> tree.dirs, ret |-> "OSError", gets |-> <<>>]
    ELSE LET made == tree.dirs \cup {Parent(destination)}
         IN  CASE net.kind = "bad_url" ->
                   [files |-> tree.files, dirs |-> made,
                    ret |-> "ValueError", gets |-> <<>>]
               [] net.kind = "urlerror" ->
                   [files |-> AfterConnectError(tree.files, destination),
                    dirs |-> made,
                    ret |-> "RuntimeError", gets |-> <<url>>]
               [] net.kind = "open_error" ->
                   [files |-> tree.files, dirs |-> made,
                    ret |-> "OSError", gets |-> <<url>>]
               [] net.kind = "read_error" ->
                   [files |-> AfterReadError(tree.files, destination,
                                             Body(url, net.n)),
                    dirs |-> made, ret |-> "Exception", gets |-> <<url>>]
               [] net.kind = "ok" ->
                   [files |-> WriteFile(tree.files, destination, Body(url, net.n)),
                    dirs |-> made, ret |-> "True", gets |-> <<url>>]

Nets ==
    { [kind |-> k, n |-> 0] :
        k \in {"mkdir_error", "bad_url", "urlerror", "open_error"} }
    \cup { [kind |-> k, n |-> n] : k \in {"read_error", "ok"}, n \in 0..MaxChunks }

\* mkdir(parents=True, exist_ok=True) has nothing to do for a directory
\* that exists
NetPossible(tree, destination, net) ==
    net.kind = "mkdir_error" => Parent(destination) \notin tree.dirs

(***************************************************************************)
(* SpecSync: any sequence of download_file calls                           *)
(***************************************************************************)
SyncUrls == {<<"a">>, <<"b">>}

SyncDests == {<<"dir", "f">>, <<"dir", "g">>}

NoCall ==
    [url |-> None, dest |-> <<>>, overwrite |-> FALSE, ret |-> "none",
     gets |-> <<>>, pre |-> EmptyTree]

NoPrev ==
    [url |-> None, dest |-> <<>>, overwrite |-> FALSE, ret |-> "none",
     gets |-> <<>>, fresh |-> FALSE]

\* the destination held no bytes when the call started
Fresh(call) ==
    call.dest \notin DOMAIN call.pre \/ Len(call.pre[call.dest]) = 0

InitSync ==
    /\ pc = "sync"
    /\ files = EmptyTree
    /\ dirs = {}
    /\ last = NoCall
    /\ prev = NoPrev
    /\ part = [bestDatasheet |-> <<>>, documentCollections |-> <<>>]
    /\ datasheet = <<>>
    /\ MainIdle

SyncCall(url, destination, overwrite, net) ==
    /\ pc = "sync"
    /\ NetPossible([files |-> files, dirs |-> dirs], destination, net)
    /\ LET r == download_file([files |-> files, dirs |-> dirs],
                              url, destination, overwrite, net)
       IN  /\ files' = r.files
           /\ dirs' = r.dirs
           /\ last' = [url |-> url, dest |-> destination, overwrite |-> overwrite,
                       ret |-> r.ret, gets |-> r.gets, pre |-> files]
    /\ prev' = IF last = NoCall THEN NoPrev
               ELSE [url |-> last.url, dest |-> last.dest,
                     overwrite |-> last.overwrite, ret |-> last.ret,
                     gets |-> last.gets, fresh |-> Fresh(last)]
    /\ UNCHANGED <<pc, part, datasheet>>
    /\ UNCHANGED mainvars

NextSync ==
    \E url \in SyncUrls, destination \in SyncDests,
       overwrite \in BOOLEAN, net \in Nets :
        SyncCall(url, destination, overwrite, net)

SpecSync == InitSync /\ [][NextSync]_vars

(***************************************************************************)
(* Bounded part records for SpecPick                                       *)
(***************************************************************************)
url_a == <<"a">>

url_b == <<"b">>

name_DataSHEET == <<"D","a","t","a","S","H","E","E","T"," ","B">>

name_Schematic == <<"S","c","h","e","m","a","t","i","c">>

name_Datasheets == <<"D","a","t","a","s","h","e","e","t","s">>

PickDocs ==
    { [name |-> name_Schematic, url |-> url_a],
      [name |-> name_DataSHEET, url |-> url_a],
      [name |-> name_DataSHEET, url |-> url_b],
      [name |-> None,           url |-> url_b],
      [name |-> name_DataSHEET, url |-> <<>>] }

RECURSIVE PickCollSeqs(_, _)
\* the sequences of at most c collections that hold at most n documents in
\* all
PickCollSeqs(c, n) ==
    IF c = 0 THEN {<<>>}
    ELSE {<<>>} \cup
         UNION { LET rests == PickCollSeqs(c - 1, n - k)
                     heads == { <<[name |-> nm, documents |-> d]>> :
                                  nm \in {None, name_Datasheets},
                                  d \in [1..k -> PickDocs] }
                 IN  { head \o rest : head \in heads, rest \in rests } :
                 k \in 0..n }

PickBests ==
    { <<>>,
      <<[name |-> None, url |-> url_a]>>,
      <<[name |-> name_Schematic, url |-> url_b]>>,
      <<[name |-> name_Schematic, url |-> None]>> }

PickParts ==
    { [bestDatasheet |-> b, documentCollections |-> c] :
        b \in PickBests, c \in PickCollSeqs(MaxColls, MaxDocs) }

InitPick ==
    /\ pc = "pick"
    /\ part \in PickParts
    /\ datasheet = <<>>
    /\ files = EmptyTree
    /\ dirs = {}
    /\ last = NoCall
    /\ prev = NoPrev
    /\ MainIdle

Pick ==
    /\ pc = "pick"
    /\ datasheet' = pick_datasheet(part)
    /\ pc' = "picked"
    /\ UNCHANGED <<part, files, dirs, last, prev>>
    /\ UNCHANGED mainvars

NextPick == Pick

SpecPick == InitPick /\ [][NextPick]_vars

(***************************************************************************)
(* main(): one run over the catalog                                        *)
(***************************************************************************)
PARTS ==
    << [mpn |-> "ESP32-S3-WROOM-1-N16R8", folder |-> "esp32 module"],
       [mpn |-> "CL10B104KB8NNNC",        folder |-> "decoupling capacitor"],
       [mpn |-> "CL10A106KP8NNNC",        folder |-> "local bulk capacitor"],
       [mpn |-> "RC0603FR-0710KL",        folder |-> "enable resistor"] >>

Entries == 1..NumParts

base_dir == "components"

str_digikey == <<"d","i","g","i","k","e","y">>

str_zip == <<".","z","i","p">>

\* http_post_json, lines 202-203: the Authorization header of a query, None
\* when the header is left out; the token stands for "Bearer <token>"
AuthHeader(tok) == IF Falsy(tok) THEN None ELSE tok

\* line 350 without strip()
ExplicitToken_nostrip(tok) == tok

\* line 350: token.strip()
ExplicitToken(tok) == Strip(tok)

\* fetch_token that returns whatever the response holds
fetch_token_unchecked(response) ==
    IF response.status = "error" THEN [raise |-> TRUE, token |-> None]
    ELSE [raise |-> FALSE, token |-> response.access_token]

\* fetch_token, lines 210-222, given the outcome of the POST
fetch_token(response) ==
    IF response.status = "error" THEN [raise |-> TRUE, token |-> None]
    ELSE IF Falsy(response.access_token) THEN [raise |-> TRUE, token |-> None]
    ELSE [raise |-> FALSE, token |-> response.access_token]

\* fetch_part, lines 256-266, given the outcome of the POST: the transport
\* fails, the payload carries "errors", the result list is empty, or the
\* first result's part is returned
fetch_part(response) ==
    CASE response.kind = "transport" -> [raise |-> TRUE, part |-> <<>>]
      [] response.kind = "errors" -> [raise |-> TRUE, part |-> <<>>]
      [] response.kind = "empty" -> [raise |-> TRUE, part |-> <<>>]
      [] response.kind = "part" -> [raise |-> FALSE, part |-> <<response.part>>]

\* line 306-307: company.get("name", ""), with "" for a seller without a
\* company object
CompanyName(seller) ==
    IF seller.company = <<>> THEN <<>> ELSE seller.company[1].name

\* line 307 without strip()
IsDigikey_nostrip(name) == Lower(name) = str_digikey

\* line 307: name.strip().lower() == "digikey"
IsDigikey(name) == Lower(Strip(name)) = str_digikey

RECURSIVE ScanSellers(_, _)
\* lines 305-309 from seller k on; None has no strip()
ScanSellers(sellers, k) ==
    IF k > Len(sellers) THEN "False"
    ELSE LET name == CompanyName(sellers[k])
         IN  IF name = None THEN "AttributeError"
             ELSE IF IsDigikey(name) THEN "True"
             ELSE ScanSellers(sellers, k + 1)

ensure_digikey_seller(p) == ScanSellers(p.sellers, 1)

\* Path(urlparse(url).path).suffix for a URL that is a bare path: the text
\* from the last dot of the final component, when that dot is neither its
\* first nor its last character
PathSuffix(url) ==
    LET slashes == {k \in 1..Len(url) : url[k] = "/"}
        start == IF slashes = {} THEN 1 ELSE SetMax(slashes) + 1
        dots == {k \in (start + 1)..Len(url) : url[k] = "."}
    IN  IF dots = {} \/ SetMax(dots) = Len(url) THEN <<>>
        ELSE SubSeq(url, SetMax(dots), Len(url))

\* line 376-377
DatasheetPath(e) == <<PARTS[e].folder, PARTS[e].mpn, "datasheet.pdf">>

\* lines 391-392
CadPath(e, url) == <<PARTS[e].folder, PARTS[e].mpn, "kicad", Or(PathSuffix(url), str_zip)>>

\* the `continue` of line 365 replaced by leaving the loop
AfterFetchFailure_break(e) == [pc |-> "exit", i |-> e, exit_code |-> 0]

\* line 365: `continue` goes to the next entry, or to `return 0`
AfterFetchFailure(e) ==
    IF e < NumParts THEN [pc |-> "fetch", i |-> e + 1, exit_code |-> Running]
    ELSE [pc |-> "exit", i |-> e, exit_code |-> 0]

\* lines 401-405 with the loop going round on the same entry
AfterSleep_again(e) == [pc |-> "fetch", i |-> e, exit_code |-> Running]

\* lines 401-405: after the sleep, the next entry or `return 0`
AfterSleep(e) ==
    IF e < NumParts THEN [pc |-> "fetch", i |-> e + 1, exit_code |-> Running]
    ELSE [pc |-> "exit", i |-> e, exit_code |-> 0]

(***************************************************************************)
(* Inputs of a run                                                         *)
(***************************************************************************)
tok_padded == <<" ", "t", "\n">>

tok_blank == <<" ">>

ArgSets ==
    { [token |-> t, client_id |-> c, client_secret |-> s, skip_cad |-> k] :
        <<t, c, s>> \in { <<tok_padded, <<"i">>, <<"s">>>>,
                          <<tok_blank, None, None>>,
                          <<None, <<"i">>, <<"s">>>>,
                          <<None, <<"i">>, None>>,
                          <<None, <<>>, <<"s">>>>,
                          <<<<>>, None, None>> },
        k \in BOOLEAN }

TokenResponses ==
    { [status |-> "error", access_token |-> None],
      [status |-> "ok", access_token |-> None],
      [status |-> "ok", access_token |-> <<>>],
      [status |-> "ok", access_token |-> <<"f">>] }

name_DigiKey == <<" ", "D","i","g","i","K","e","y", "\n">>

name_Mouser == <<"M","o","u","s","e","r">>

url_cad == <<"/","l","i","b",".","7","z">>

MainSellers ==
    { << [company |-> <<>>], [company |-> <<[name |-> name_DigiKey]>>],
         [company |-> <<[name |-> None]>>] >>,
      << [company |-> <<[name |-> name_Mouser]>>] >>,
      << [company |-> <<[name |-> name_Mouser]>>],
         [company |-> <<[name |-> None]>>] >> }

MainAssets ==
    { [bestDatasheet |-> <<[name |-> None, url |-> url_a]>>,
       documentCollections |-> <<>>,
       cad |-> <<[hasKicad |-> TRUE, downloadUrlKicad |-> url_cad]>>],
      [bestDatasheet |-> <<>>,
       documentCollections |->
           <<[name |-> name_Datasheets,
              documents |-> <<[name |-> None, url |-> url_b]>>]>>,
       cad |-> <<[hasKicad |-> TRUE, downloadUrlKicad |-> None]>>],
      [bestDatasheet |-> <<>>,
       documentCollections |-> <<>>,
       cad |-> <<>>],
      [bestDatasheet |-> <<>>,
       documentCollections |-> <<>>,
       cad |-> <<[hasKicad |-> FALSE, downloadUrlKicad |-> url_cad]>>] }

MainParts ==
    { [sellers |-> s, bestDatasheet |-> a.bestDatasheet,
       documentCollections |-> a.documentCollections, cad |-> a.cad] :
        s \in MainSellers, a \in MainAssets }

FetchResponses ==
    { [kind |-> k, part |-> <<>>] : k \in {"transport", "errors", "empty"} }
    \cup { [kind |-> "part", part |-> p] : p \in MainParts }

MainNets ==
    { [kind |-> "urlerror", n |-> 0],
      [kind |-> "read_error", n |-> 1],
      [kind |-> "ok", n |-> 1] }

str_old == <<"old">>

\* what an earlier run may have left: nothing, or one asset file of the
\* first entry
PriorTrees ==
    { EmptyTree,
      [p \in {DatasheetPath(1)} |-> str_old],
      [p \in {CadPath(1, url_cad)} |-> str_old] }

NoReport ==
    [fetch |-> "none", queries |-> <<>>, warn |-> FALSE, mkdirs |-> 0,
     ds |-> "none", ds_calls |-> 0, ds_gets |-> <<>>,
     cad |-> "none", cad_calls |-> 0, cad_gets |-> <<>>, slept |-> 0]

Init ==
    /\ pc = "auth"
    /\ args \in ArgSets
    /\ token = None
    /\ i = 0
    /\ part = <<>>
    /\ datasheet = <<>>
    /\ files \in PriorTrees
    /\ dirs = IF files = EmptyTree THEN {}
              ELSE {base_dir} \cup {Parent(p) : p \in DOMAIN files}
    /\ token_posts = <<>>
    /\ report = [e \in Entries |-> NoReport]
    /\ exit_code = Running
    /\ crash_at = "none"
    /\ last = NoCall
    /\ prev = NoPrev

(***************************************************************************)
(* Steps of main()                                                         *)
(***************************************************************************)
\* lines 345-347: no token and a client id or secret missing: parser.error
AuthUsageError ==
    /\ pc = "auth"
    /\ Falsy(args.token)
    /\ Falsy(args.client_id) \/ Falsy(args.client_secret)
    /\ pc' = "exit"
    /\ exit_code' = 2
    /\ crash_at' = "auth"
    /\ UNCHANGED <<part, datasheet, files, dirs, last, prev,
                   args, token, i, token_posts, report>>

\* lines 345-348: no token, both client id and secret: fetch_token
AuthFetchToken(response) ==
    /\ pc = "auth"
    /\ Falsy(args.token)
    /\ ~Falsy(args.client_id) /\ ~Falsy(args.client_secret)
    /\ token_posts' = Append(token_posts, response)
    /\ LET r == fetch_token(response)
       IN  IF r.raise
           THEN /\ pc' = "exit"
                /\ exit_code' = 1
                /\ crash_at' = "auth"
                /\ UNCHANGED token
           ELSE /\ pc' = "base_dir"
                /\ token' = r.token
                /\ UNCHANGED <<exit_code, crash_at>>
    /\ UNCHANGED <<part, datasheet, files, dirs, last, prev, args, i, report>>

\* lines 349-350: an explicit token
AuthExplicit ==
    /\ pc = "auth"
    /\ ~Falsy(args.token)
    /\ token' = ExplicitToken(args.token)
    /\ pc' = "base_dir"
    /\ UNCHANGED <<part, datasheet, files, dirs, last, prev,
                   args, i, token_posts, report, exit_code, crash_at>>

\* lines 352-353: base_dir.mkdir, which may raise OSError
MakeBaseDir(ok) ==
    /\ pc = "base_dir"
    /\ ok \/ base_dir \notin dirs
    /\ IF ok
       THEN /\ dirs' = dirs \cup {base_dir}
            /\ pc' = IF NumParts >= 1 THEN "fetch" ELSE "exit"
            /\ i' = 1
            /\ UNCHANGED <<exit_code, crash_at>>
       ELSE /\ pc' = "exit"
            /\ exit_code' = 1
            /\ crash_at' = "base_dir"
            /\ UNCHANGED <<dirs, i>>
    /\ UNCHANGED <<part, datasheet, files, last, prev,
                   args, token, token_posts, report>>

\* lines 358-365: fetch_part inside try/except Exception
FetchPart(response) ==
    /\ pc = "fetch"
    /\ LET q == [token |-> token, auth |-> AuthHeader(token)]
           r == fetch_part(response)
           nxt == AfterFetchFailure(i)
       IN  IF r.raise
           THEN /\ report' = [report EXCEPT ![i].queries = Append(@, q),
                                            ![i].fetch = response.kind]
                /\ pc' = nxt.pc
                /\ i' = nxt.i
                /\ exit_code' = nxt.exit_code
                /\ UNCHANGED part
           ELSE /\ report' = [report EXCEPT ![i].queries = Append(@, q),
                                            ![i].fetch = "ok"]
                /\ part' = r.part[1]
                /\ pc' = "sellers"
                /\ UNCHANGED <<i, exit_code>>
    /\ UNCHANGED <<datasheet, files, dirs, last, prev,
                   args, token, token_posts, crash_at>>

\* lines 367-369: outside any try block
CheckSellers ==
    /\ pc = "sellers"
    /\ LET r == ensure_digikey_seller(part)
       IN  IF r = "AttributeError"
           THEN /\ pc' = "exit"
                /\ exit_code' = 1
                /\ crash_at' = "sellers"
                /\ UNCHANGED report
           ELSE /\ report' = [report EXCEPT ![i].warn = (r = "False")]
                /\ pc' = "mkdir"
                /\ UNCHANGED <<exit_code, crash_at>>
    /\ UNCHANGED <<part, datasheet, files, dirs, last, prev,
                   args, token, i, token_posts>>

\* lines 371-372: target_dir.mkdir, outside any try block; it may raise
\* OSError when the directory has to be created
MakeTargetDir(ok) ==
    /\ pc = "mkdir"
    /\ ok \/ PARTS[i].folder \notin dirs
    /\ IF ok
       THEN /\ dirs' = dirs \cup {PARTS[i].folder}
            /\ pc' = "datasheet"
            /\ UNCHANGED <<exit_code, crash_at>>
       ELSE /\ pc' = "exit"
            /\ exit_code' = 1
            /\ crash_at' = "mkdir"
            /\ UNCHANGED dirs
    /\ report' = [report EXCEPT ![i].mkdirs = @ + 1]
    /\ UNCHANGED <<part, datasheet, files, last, prev,
                   args, token, i, token_posts>>

\* lines 382, 397 narrowed to the error download_file converts itself
Caught_runtimeonly(ret) == ret = "RuntimeError"

\* lines 382, 397: `except Exception` catches whatever download_file raises
Caught(ret) == ret \in {"RuntimeError", "OSError", "ValueError", "Exception"}

\* line 387 with the flag ignored
SkipCad_never(a) == FALSE

\* line 387: args.skip_cad
SkipCad(a) == a.skip_cad

\* what lines 380-383 / 395-398 print for the outcome of download_file
Status(ret) ==
    CASE ret = "True" -> "downloaded"
      [] ret = "False" -> "already up to date"
      [] OTHER -> "failed"

\* lines 374-385
SyncDatasheet(net) ==
    /\ pc = "datasheet"
    /\ datasheet' = pick_datasheet(part)
    /\ IF datasheet' # <<>>
       THEN LET r == download_file([files |-> files, dirs |-> dirs],
                                   datasheet'[1].url, DatasheetPath(i), FALSE, net)
            IN  /\ files' = r.files
                /\ dirs' = r.dirs
                /\ report' = [report EXCEPT ![i].ds = Status(r.ret),
                                            ![i].ds_calls = @ + 1,
                                            ![i].ds_gets = @ \o r.gets]
                /\ IF r.ret \in {"True", "False"} \/ Caught(r.ret)
                   THEN pc' = "cad" /\ UNCHANGED <<exit_code, crash_at>>
                   ELSE pc' = "exit" /\ exit_code' = 1 /\ crash_at' = "datasheet"
       ELSE /\ report' = [report EXCEPT ![i].ds = "no url"]
            /\ pc' = "cad"
            /\ UNCHANGED <<files, dirs, exit_code, crash_at>>
    /\ UNCHANGED <<part, last, prev, args, token, i, token_posts>>

\* line 388: part.get("cad") or {}   (a missing key reads as None/False)
CadInfo(p) ==
    IF p.cad = <<>> THEN [hasKicad |-> FALSE, downloadUrlKicad |-> None]
    ELSE p.cad[1]

\* line 390 without the hasKicad test
CadAvailable_urlonly(p) == ~Falsy(CadInfo(p).downloadUrlKicad)

\* line 390: cad_info.get("hasKicad") and kicad_url
CadAvailable(p) == CadInfo(p).hasKicad /\ ~Falsy(CadInfo(p).downloadUrlKicad)

\* lines 387-400
SyncCad(net) ==
    /\ pc = "cad"
    /\ IF ~SkipCad(args) /\ CadAvailable(part)
       THEN LET kicad_url == CadInfo(part).downloadUrlKicad
                r == download_file([files |-> files, dirs |-> dirs],
                                   kicad_url, CadPath(i, kicad_url), FALSE, net)
            IN  /\ files' = r.files
                /\ dirs' = r.dirs
                /\ report' = [report EXCEPT ![i].cad = Status(r.ret),
                                            ![i].cad_calls = @ + 1,
                                            ![i].cad_gets = @ \o r.gets]
                /\ IF r.ret \in {"True", "False"} \/ Caught(r.ret)
                   THEN pc' = "sleep" /\ UNCHANGED <<exit_code, crash_at>>
                   ELSE pc' = "exit" /\ exit_code' = 1 /\ crash_at' = "cad"
       ELSE /\ report' = IF SkipCad(args) THEN report
                         ELSE [report EXCEPT ![i].cad = "not published"]
            /\ pc' = "sleep"
            /\ UNCHANGED <<files, dirs, exit_code, crash_at>>
    /\ UNCHANGED <<part, datasheet, last, prev, args, token, i, token_posts>>

\* lines 401-405: time.sleep(0.5), then the next entry or return 0
Sleep ==
    /\ pc = "sleep"
    /\ report' = [report EXCEPT ![i].slept = @ + 1]
    /\ pc' = AfterSleep(i).pc
    /\ i' = AfterSleep(i).i
    /\ exit_code' = AfterSleep(i).exit_code
    /\ UNCHANGED <<part, datasheet, files, dirs, last, prev,
                   args, token, token_posts, crash_at>>

Next ==
    \/ AuthUsageError
    \/ \E response \in TokenResponses : AuthFetchToken(response)
    \/ AuthExplicit
    \/ \E ok \in BOOLEAN : MakeBaseDir(ok)
    \/ \E response \in FetchResponses : FetchPart(response)
    \/ CheckSellers
    \/ \E ok \in BOOLEAN : MakeTargetDir(ok)
    \/ \E net \in MainNets : SyncDatasheet(net)
    \/ \E net \in MainNets : SyncCad(net)
    \/ Sleep

Spec == Init /\ [][Next]_vars

\* the process runs to its end: nothing but its own steps can stop it
FairSpec == Spec /\ WF_vars(Next)

(***************************************************************************)
(* Claims about pick_datasheet                                             *)
(***************************************************************************)
Colls == part.documentCollections

\* positions <<c, d>> of the documents of the part, in scan order
DocPositions ==
    UNION { { <<c, d>> : d \in 1..Len(Colls[c].documents) } : c \in 1..Len(Colls) }

DocAt(pos) == Colls[pos[1]].documents[pos[2]]

Before(q, pos) == q[1] < pos[1] \/ (q[1] = pos[1] /\ q[2] < pos[2])

\* the document's name, or the collection's name when that is empty
EffectiveName(pos) ==
    IF DocAt(pos).name \notin {None, <<>>} THEN DocAt(pos).name
    ELSE Colls[pos[1]].name

NamesDatasheet(pos) ==
    /\ EffectiveName(pos) \notin {None, <<>>}
    /\ \E k \in 1..Len(EffectiveName(pos)) :
          /\ k + 8 <= Len(EffectiveName(pos))
          /\ \A j \in 0..8 :
                LowerChar(EffectiveName(pos)[k + j]) = str_datasheet[j + 1]

FirstWithUrl(pos) ==
    /\ DocAt(pos).url \notin {None, <<>>}
    /\ \A q \in DocPositions : Before(q, pos) => DocAt(q).url # DocAt(pos).url

Eligible(pos) == FirstWithUrl(pos) /\ NamesDatasheet(pos)

BestUsable ==
    /\ part.bestDatasheet # <<>>
    /\ part.bestDatasheet[1].url \notin {None, <<>>}

\* C8: a part whose bestDatasheet has a non-empty URL yields that URL, named
\* by the reference's name or "Datasheet" when that is empty, whatever the
\* document collections hold.
C8_BestDatasheetWins ==
    (pc = "picked" /\ BestUsable) =>
        /\ datasheet # <<>>
        /\ datasheet[1].url = part.bestDatasheet[1].url
        /\ datasheet[1].name =
              IF part.bestDatasheet[1].name \in {None, <<>>}
              THEN str_Datasheet
              ELSE part.bestDatasheet[1].name

\* a usable best reference next to a collection whose first document is an
\* eligible datasheet with another URL
C8_Witness ==
    /\ pc = "picked"
    /\ BestUsable
    /\ \E pos \in DocPositions :
          Eligible(pos) /\ DocAt(pos).url # part.bestDatasheet[1].url
    /\ part.bestDatasheet[1].name = None
    /\ datasheet[1].name = str_Datasheet

\* C9: without a usable best URL the result is the first document, in
\* collection order then document order, with a non-empty not-yet-seen URL
\* whose effective name contains "datasheet" case-insensitively; none when
\* there is no such document.
C9_FallbackScan ==
    (pc = "picked" /\ ~BestUsable) =>
        IF \E pos \in DocPositions : Eligible(pos)
        THEN \E pos \in DocPositions :
                /\ Eligible(pos)
                /\ \A q \in DocPositions : Before(q, pos) => ~Eligible(q)
                /\ datasheet = <<[name |-> EffectiveName(pos),
                                  url |-> DocAt(pos).url]>>
        ELSE datasheet = <<>>

\* the second collection supplies the result, through the collection's name,
\* after a first collection whose document is not a datasheet
C9_Witness ==
    /\ pc = "picked"
    /\ ~BestUsable
    /\ Len(Colls) = 2
    /\ Len(Colls[1].documents) = 1
    /\ ~NamesDatasheet(<<1, 1>>)
    /\ DocAt(<<1, 1>>).url = url_a
    /\ Len(Colls[2].documents) = 1
    /\ DocAt(<<2, 1>>).name = None
    /\ datasheet = <<[name |-> name_Datasheets, url |-> url_b]>>

\* C10: in the fallback scan a document whose URL already occurred at an
\* earlier position is never the one returned.
C10_DuplicateUrlNeverReturned ==
    (pc = "picked" /\ ~BestUsable /\ datasheet # <<>>) =>
        \A pos \in DocPositions :
            (\E q \in DocPositions :
                Before(q, pos) /\ DocAt(q).url = DocAt(pos).url)
            => \/ datasheet[1].url # DocAt(pos).url
               \/ \E q \in DocPositions :
                     /\ Before(q, pos)
                     /\ Eligible(q)
                     /\ datasheet = <<[name |-> EffectiveName(q),
                                       url |-> DocAt(q).url]>>

\* a document named as a datasheet repeats, in a later collection, the URL
\* of a document that is not one: it is passed over and nothing is returned
C10_Witness ==
    /\ pc = "picked"
    /\ ~BestUsable
    /\ \E pos \in DocPositions :
          /\ NamesDatasheet(pos)
          /\ DocAt(pos).url = url_a
          /\ \E q \in DocPositions :
                /\ Before(q, pos)
                /\ q[1] # pos[1]
                /\ DocAt(q).url = url_a
                /\ ~NamesDatasheet(q)
    /\ datasheet = <<>>

(***************************************************************************)
(* Claims about download_file                                              *)
(***************************************************************************)
HadBytes(call) ==
    call.dest \in DOMAIN call.pre /\ Len(call.pre[call.dest]) > 0

\* C1: a call with overwrite=False whose destination exists with non-zero
\* size returns False, issues no request and leaves the file tree as it
\* was, after any sequence of earlier calls.
C1_ExistingFileUntouched ==
    (last # NoCall /\ ~last.overwrite /\ HadBytes(last)) =>
        /\ last.ret = "False"
        /\ last.gets = <<>>
        /\ files = last.pre

\* the file was left by an earlier call that failed part-way, and a call
\* naming another URL finds it
C1_Witness ==
    /\ last # NoCall
    /\ ~last.overwrite
    /\ HadBytes(last)
    /\ prev.ret = "Exception"
    /\ prev.dest = last.dest
    /\ prev.url # last.url
    /\ last.ret = "False"

SamePair ==
    /\ prev # NoPrev
    /\ prev.url = last.url
    /\ prev.dest = last.dest
    /\ ~prev.overwrite
    /\ ~last.overwrite

\* C2 (as stated): two calls in a row with the same URL and destination and
\* overwrite=False perform exactly one transfer in total, the second
\* returns False and the content is the one the first call left.
C2_ExactlyOneTransfer ==
    SamePair =>
        /\ Len(prev.gets) + Len(last.gets) = 1
        /\ last.ret = "False"
        /\ files = last.pre

\* C2 (amended): the same, for a destination that held no bytes before the
\* first call and to which the first call wrote at least one byte.
C2_OneTransferWhenFirstWrites ==
    (SamePair /\ prev.fresh /\ HadBytes(last)) =>
        /\ Len(prev.gets) + Len(last.gets) = 1
        /\ last.ret = "False"
        /\ files = last.pre

C2_Witness ==
    /\ SamePair
    /\ prev.fresh
    /\ HadBytes(last)
    /\ prev.ret = "True"
    /\ last.ret = "False"
    /\ prev.gets = <<last.url>>

(***************************************************************************)
(* Claims about main()                                                     *)
(***************************************************************************)
FetchFailed(e) == report[e].fetch \in {"transport", "errors", "empty"}

Startup == {"auth", "base_dir"}

\* C3 (as stated): an exception raised in any step of one entry is caught
\* and recorded, and every later entry is still attempted; so a run that
\* got past startup ends only after a query was sent for every entry.
C3_LaterEntriesStillAttempted ==
    (pc = "exit" /\ crash_at \notin Startup) =>
        \A e \in Entries : Len(report[e].queries) = 1

\* C4, state part: an entry whose resolution failed has had no seller
\* check, no folder creation and no datasheet or CAD sync; queries go out in
\* catalog order, one for each entry up to the current one.
C4_State ==
    /\ \A e \in Entries :
          FetchFailed(e) =>
              /\ ~report[e].warn
              /\ report[e].mkdirs = 0
              /\ report[e].ds = "none" /\ report[e].ds_calls = 0
              /\ report[e].cad = "none" /\ report[e].cad_calls = 0
    /\ \A e \in Entries :
          Len(report[e].queries) =
              IF e < i \/ (e = i /\ pc # "fetch") THEN 1 ELSE 0

\* C4, step part: the step on which a resolution fails touches no file and
\* no directory, and hands over to the resolution of the next entry (or to
\* the end of the run after the last entry).
C4_Step ==
    (pc = "fetch" /\ report'[i].fetch \in {"transport", "errors", "empty"}) =>
        /\ files' = files
        /\ dirs' = dirs
        /\ IF i < NumParts
           THEN pc' = "fetch" /\ i' = i + 1 /\ exit_code' = Running
           ELSE pc' = "exit" /\ exit_code' = 0

\* C4: when resolving an entry fails no further step runs for that entry,
\* and the other entries, before and after it, are resolved in catalog
\* order.
C4_ResolveFailureSkipsOnlyThatEntry == []C4_State /\ [][C4_Step]_vars

\* the first entry failed to resolve and the second one was resolved and
\* had its datasheet downloaded
C4_Witness ==
    /\ FetchFailed(1)
    /\ report[2].fetch = "ok"
    /\ report[2].ds = "downloaded"
    /\ DatasheetPath(2) \in DOMAIN files
    /\ DatasheetPath(1) \notin DOMAIN files

\* C5 (as stated, its safety half): a process that ends with a non-zero
\* status ended during startup, before the loop over the catalog.
C5_NonZeroExitOnlyAtStartup ==
    (pc = "exit" /\ exit_code # 0) => crash_at \in Startup

NoCredential ==
    /\ Falsy(args.token)
    /\ \/ Falsy(args.client_id)
       \/ Falsy(args.client_secret)
       \/ /\ token_posts # <<>>
          /\ token_posts[1].access_token \in {None, <<>>}

C6_State ==
    NoCredential =>
        /\ pc \in {"auth", "exit"}
        /\ pc = "exit" => exit_code \in {1, 2}
        /\ i = 0
        /\ report = [e \in Entries |-> NoReport]

C6_Step == NoCredential' => (files' = files /\ dirs' = dirs)

\* C6: without an explicit token, a missing client id or secret, or a token
\* response without access_token, ends the run before any entry is
\* processed: no part query, no folder, no download.
C6_AbortBeforeAnyEntry == []C6_State /\ [][C6_Step]_vars

\* the token endpoint answered with an empty access_token
C6_Witness ==
    /\ pc = "exit"
    /\ Falsy(args.token)
    /\ ~Falsy(args.client_id) /\ ~Falsy(args.client_secret)
    /\ token_posts = <<[status |-> "ok", access_token |-> <<>>]>>
    /\ exit_code = 1

\* t is s without its leading and trailing whitespace
IsTrimOf(t, s) ==
    /\ t # <<>> => (t[1] \notin Whitespace /\ t[Len(t)] \notin Whitespace)
    /\ \E a \in 0..Len(s) :
          /\ a + Len(t) <= Len(s)
          /\ \A k \in 1..Len(t) : s[a + k] = t[k]
          /\ \A k \in 1..Len(s) :
                (k <= a \/ k > a + Len(t)) => s[k] \in Whitespace

\* C7: with an explicit token the token endpoint is never contacted, and
\* the credential, set once before the loop, is the trimmed token in every
\* part query of the run.
C7_ExplicitTokenTrimmedAndUsed ==
    (args.token \notin {None, <<>>}) =>
        /\ token_posts = <<>>
        /\ pc # "auth" => IsTrimOf(token, args.token)
        /\ \A e \in Entries :
              \A k \in 1..Len(report[e].queries) :
                  /\ IsTrimOf(report[e].queries[k].token, args.token)
                  /\ report[e].queries[k].token = token

\* a padded token next to a usable client id and secret: both entries were
\* queried with the trimmed token and no token was requested
C7_Witness ==
    /\ args.token = tok_padded
    /\ ~Falsy(args.client_id) /\ ~Falsy(args.client_secret)
    /\ \A e \in 1..2 : report[e].queries = <<[token |-> <<"t">>, auth |-> <<"t">>]>>
    /\ token_posts = <<>>

\* ---------------------------------------------------------------------
\* skip_cad, sellers, download failures, pacing, retries (main)
\* ---------------------------------------------------------------------

\* the paths main() uses for CAD archives: <folder>/<mpn>/kicad/<file>
IsCadPath(p) == Len(p) = 4 /\ p[3] = "kicad"

SyncOutcomes == {"downloaded", "already up to date", "failed"}

\* C11, state part: with skip_cad no entry has a CAD outcome, a CAD call or
\* a CAD request, while the datasheet of every resolved entry is handled:
\* one call when a datasheet was picked, none otherwise.
C11_State ==
    args.skip_cad =>
        /\ \A e \in Entries :
              /\ report[e].cad = "none"
              /\ report[e].cad_calls = 0
              /\ report[e].cad_gets = <<>>
              /\ (e < i /\ ~FetchFailed(e)) =>
                     report[e].ds \in SyncOutcomes \cup {"no url"}
        /\ pc = "sleep" =>
              /\ report[i].ds_calls = IF pick_datasheet(part) = <<>> THEN 0 ELSE 1
              /\ (report[i].ds = "no url") = (pick_datasheet(part) = <<>>)

\* C11, step part: with skip_cad no step creates, removes or changes a file
\* under a kicad folder, and the CAD step changes nothing but the position.
C11_Step ==
    args.skip_cad =>
        /\ \A p \in (DOMAIN files) \cup (DOMAIN files') :
              IsCadPath(p) =>
                  /\ p \in DOMAIN files /\ p \in DOMAIN files'
                  /\ files'[p] = files[p]
        /\ pc = "cad" =>
              /\ files' = files /\ dirs' = dirs /\ report' = report
              /\ pc' = "sleep"

\* C11: with skip_cad set no CAD download is requested and no CAD file is
\* created or modified for any entry, even when the part offers a KiCad
\* archive with a download URL; the datasheet is handled as usual.
C11_SkipCadFetchesNothing == []C11_State /\ [][C11_Step]_vars

\* skip_cad, a part that offers the archive, an archive left by an earlier
\* run: the datasheet was downloaded and the archive is as it was
C11_Witness ==
    /\ args.skip_cad
    /\ pc = "sleep" /\ i = 1
    /\ CadInfo(part).hasKicad /\ CadInfo(part).downloadUrlKicad = url_cad
    /\ report[1].ds = "downloaded"
    /\ CadPath(1, url_cad) \in DOMAIN files
    /\ files[CadPath(1, url_cad)] = str_old

\* no seller of the part has a company name that, trimmed and lower-cased,
\* is the reference distributor (a null name is no such name)
NoDistributorListed(p) ==
    \A k \in 1..Len(p.sellers) :
        LET name == CompanyName(p.sellers[k])
        IN  name = None \/ Lower(Strip(name)) # str_digikey

\* C12 (as stated): for a resolved part that does not list the distributor
\* the seller check records a warning and hands over to folder creation, as
\* it does (without the warning) for a part that lists it.
C12_WarnThenProceed ==
    [][ pc = "sellers" =>
            /\ pc' = "mkdir"
            /\ exit_code' = Running
            /\ report'[i].warn = NoDistributorListed(part) ]_vars

\* C13, state part: after the CAD step the archive has been attempted once
\* exactly when skip_cad is unset and the part offers it, whatever happened
\* to the datasheet; a run does not end in the datasheet or the CAD step.
C13_State ==
    /\ (pc = "sleep" /\ report[i].ds = "failed") =>
           /\ report[i].cad_calls =
                  IF ~args.skip_cad /\ CadAvailable(part) THEN 1 ELSE 0
           /\ (~args.skip_cad /\ CadAvailable(part)) => report[i].cad \in SyncOutcomes
    /\ crash_at \notin {"datasheet", "cad"}

\* C13, step part: a failed datasheet download changes the datasheet fields
\* of that entry only and hands over to its CAD step; a failed CAD download
\* hands over to the pause, and the pause to the next entry (or the end).
C13_Step ==
    /\ (pc = "datasheet" /\ report'[i].ds = "failed") =>
           /\ pc' = "cad" /\ i' = i /\ exit_code' = Running
           /\ report' = [report EXCEPT ![i].ds = "failed",
                                       ![i].ds_calls = report'[i].ds_calls,
                                       ![i].ds_gets = report'[i].ds_gets]
    /\ (pc = "cad" /\ report'[i].cad = "failed") =>
           /\ pc' = "sleep" /\ i' = i /\ exit_code' = Running
    /\ (pc = "sleep" /\ report[i].cad = "failed") =>
           IF i < NumParts
           THEN pc' = "fetch" /\ i' = i + 1 /\ exit_code' = Running
           ELSE pc' = "exit" /\ exit_code' = 0

\* C13: a failed datasheet download is recorded for the datasheet only and
\* the CAD archive of the entry is still attempted when it is wanted and
\* offered; a failed CAD download does not keep the next entry from being
\* processed.
C13_DownloadFailureIsLocal == []C13_State /\ [][C13_Step]_vars

\* both downloads of the first entry failed, the CAD one after the
\* datasheet one, and the second entry was queried
C13_Witness ==
    /\ report[1].ds = "failed" /\ report[1].ds_calls = 1
    /\ report[1].cad = "failed" /\ report[1].cad_calls = 1
    /\ Len(report[2].queries) = 1

\* C14 (as stated): when the run moves on from an entry, whatever its
\* outcome, the pause has been made for it: every entry before the current
\* one has slept once.
C14_PauseAfterEveryEntry ==
    \A e \in Entries : e < i => report[e].slept = 1

\* C15: every entry the run has reached has had exactly one part query and
\* no entry more than one; a run that returns 0 has queried every entry
\* once; each asset of each entry has had at most one download call and at
\* most one request, so nothing is retried.
C15_NoRetry ==
    /\ \A e \in Entries :
          /\ Len(report[e].queries) <= 1
          /\ (e < i \/ (e = i /\ pc \notin Startup \cup {"fetch"}
                               /\ crash_at \notin Startup)) =>
                 Len(report[e].queries) = 1
          /\ exit_code = 0 => Len(report[e].queries) = 1
          /\ report[e].ds_calls <= 1 /\ Len(report[e].ds_gets) <= 1
          /\ report[e].cad_calls <= 1 /\ Len(report[e].cad_gets) <= 1
          /\ report[e].mkdirs <= 1 /\ report[e].slept <= 1

\* the run has ended after a failed query for the first entry and two
\* failed downloads for the second: one query each, one call per asset
C15_Witness ==
    /\ pc = "exit" /\ exit_code = 0
    /\ FetchFailed(1) /\ Len(report[1].queries) = 1
    /\ report[2].ds = "failed" /\ report[2].ds_calls = 1
    /\ report[2].cad = "failed" /\ report[2].cad_calls = 1
    /\ Len(report[2].queries) = 1

\* ---------------------------------------------------------------------
\* partial files and connection failures (download_file)
\* ---------------------------------------------------------------------

\* C16: a call that fails during the transfer leaves the destination on
\* disk holding the chunks it wrote; when the call before failed that way
\* with at least one chunk written, a call for the same destination with
\* overwrite=False returns False, issues no request and leaves the tree as
\* it was, so the partial content stays.
C16_PartialFileNeverCompleted ==
    /\ last.ret = "Exception" =>
           /\ last.dest \in DOMAIN files
           /\ \A k \in 1..Len(files[last.dest]) : files[last.dest][k] = last.url
           /\ last.gets = <<last.url>>
    /\ (prev.ret = "Exception" /\ prev.dest = last.dest /\ HadBytes(last)
            /\ ~last.overwrite) =>
           /\ last.pre[last.dest] = Body(prev.url, Len(last.pre[last.dest]))
           /\ last.ret = "False"
           /\ last.gets = <<>>
           /\ files = last.pre

\* a transfer from one URL broke after a chunk; the next call, for another
\* URL and the same destination, found the partial file and returned False
C16_Witness ==
    /\ prev.ret = "Exception" /\ prev.dest = last.dest /\ prev.fresh
    /\ prev.url # last.url
    /\ ~last.overwrite
    /\ Len(files[last.dest]) >= 1
    /\ last.ret = "False"

\* C19: a call that fails while the connection is opened leaves every file,
\* the destination included, as it was before the call: an absent file is
\* not created and an existing one keeps its content, with overwrite too;
\* one request was tried.
C19_ConnectFailureLeavesFile ==
    last.ret = "RuntimeError" =>
        /\ files = last.pre
        /\ (last.dest \in DOMAIN files) = (last.dest \in DOMAIN last.pre)
        /\ last.gets = <<last.url>>

\* overwrite=True on a file with content and the connection fails: the
\* content is still there
C19_Witness ==
    /\ last.ret = "RuntimeError"
    /\ last.overwrite
    /\ HadBytes(last)
    /\ files[last.dest] = last.pre[last.dest]

\* ---------------------------------------------------------------------
\* CAD availability and the credential of part queries (main)
\* ---------------------------------------------------------------------

\* the part record says a KiCad archive exists and gives a non-empty URL
OffersKicad(p) ==
    /\ p.cad # <<>>
    /\ p.cad[1].hasKicad = TRUE
    /\ p.cad[1].downloadUrlKicad # None
    /\ p.cad[1].downloadUrlKicad # <<>>

\* C17: without skip_cad, after the CAD step of a resolved entry the
\* archive has been synchronized (one download_file call) exactly when the
\* part reports hasKicad and a non-empty URL; otherwise the outcome is
\* "not published" and no call and no request was made.
C17_CadSyncedIffOffered ==
    (pc = "sleep" /\ ~args.skip_cad) =>
        IF OffersKicad(part)
        THEN /\ report[i].cad \in SyncOutcomes
             /\ report[i].cad_calls = 1
        ELSE /\ report[i].cad = "not published"
             /\ report[i].cad_calls = 0
             /\ report[i].cad_gets = <<>>

\* hasKicad is false although a URL is given: not published, no request
C17_Witness ==
    /\ pc = "sleep" /\ ~args.skip_cad
    /\ part.cad # <<>>
    /\ ~part.cad[1].hasKicad
    /\ part.cad[1].downloadUrlKicad = url_cad
    /\ report[i].cad = "not published"
    /\ report[i].cad_gets = <<>>

\* C18 (as stated): every part query of a run carries a non-empty bearer
\* credential.
C18_EveryQueryCarriesCredential ==
    \A e \in Entries :
        \A k \in 1..Len(report[e].queries) :
            /\ report[e].queries[k].auth # None
            /\ report[e].queries[k].auth # <<>>

====
